---- MODULE Spec2Model ----
(***************************************************************************)
(* Model of DBImitate (src/classes.py): an in-memory key-value store with  *)
(* a stack of nested transactions.                                         *)
(*                                                                         *)
(* self.transaction_log is a sequence of dicts; transaction_log[1] is the  *)
(* base layer self.db (the same object).  A dict is a function from Keys   *)
(* to entries.  An entry is a record [kind, prev, cur]:                    *)
(*   kind = "absent" : the key is not in the dict                          *)
(*   kind = "raw"    : the dict holds the plain value cur                  *)
(*   kind = "list"   : the dict holds the two-element list [prev, cur]     *)
(* Python dicts iterate in insertion order; the model does not keep that   *)
(* order.  The loops of commit and rollback touch, for each key, only that *)
(* key's entry of the parent frame, so their result does not depend on the *)
(* order, except for which keys rollback has restored when it raises       *)
(* KeyError: there the order is an input of the operation.                 *)
(***************************************************************************)
EXTENDS Integers, Sequences, FiniteSets

\* ------------------------------------------------------------------ bounds
MaxDepth == 3                  \* largest len(transaction_log) the driver builds
Keys     == {"a", "b"}         \* keys the driver uses
Values   == {"1", "2"}         \* values the driver uses (never the sentinel)
MaxOps   == 2                  \* longest sequence of set and unset tried at once

\* every order in which a loop may visit the keys
KeyOrders == { s \in [1..Cardinality(Keys) -> Keys] :
                 \A i, j \in DOMAIN s : i # j => s[i] # s[j] }

\* ------------------------------------------------------------ Python values
None    == "None"              \* Python None
NULL    == "NULL"              \* the 'NULL' string returned by get
ListObj == "[list]"            \* a list object read where a plain value is expected

Absent    == [kind |-> "absent", prev |-> None, cur |-> None]
Raw(v)    == [kind |-> "raw",    prev |-> None, cur |-> v]
Rec(p, c) == [kind |-> "list",   prev |-> p,    cur |-> c]

\* dict()
EmptyDict == [k \in Keys |-> Absent]

\* ------------------------------------------------------------ dict helpers
\* key in d
Has(d, k) == d[k].kind # "absent"

\* d[key] = e
SetItem(d, k, e) == [d EXCEPT ![k] = e]

\* d.pop(key)
PopItem(d, k) == [d EXCEPT ![k] = Absent]

\* isinstance(e, list)
IsList(e) == e.kind = "list"

\* the object stored under an entry, read as a plain value
AsValue(e) == IF IsList(e) THEN ListObj ELSE e.cur

\* list with its last element removed
Front(s) == SubSeq(s, 1, Len(s) - 1)

\* s with its last element replaced
WithTop(s, d) == [s EXCEPT ![Len(s)] = d]

\* s with the element below the top replaced
WithParent(s, d) == [s EXCEPT ![Len(s) - 1] = d]

\* ------------------------------------------------------------- operations
\* the value of key visible in the frames from the i-th down, None if none
RECURSIVE GetScanDown(_, _, _)
GetScanDown(tl, i, key) ==
    IF i = 0 THEN None
    ELSE IF Has(tl[i], key) THEN tl[i][key].cur
    ELSE GetScanDown(tl, i - 1, key)

\* set recording as previous the value visible through the whole stack
set_DeepLookup(tl, key, value) ==
    LET n    == Len(tl)
        top  == tl[n]
        seen == IF n > 1 THEN GetScanDown(tl, n - 1, key) ELSE None
    IN  IF n = 1
          THEN WithTop(tl, SetItem(top, key, Raw(value)))
          ELSE WithTop(tl, SetItem(top, key, Rec(seen, value)))

\* DBImitate.set: three cases on len(self.transaction_log)
set(tl, key, value) ==
    LET n   == Len(tl)
        top == tl[n]
    IN  IF n = 1
          THEN WithTop(tl, SetItem(top, key, Raw(value)))
        ELSE IF n > 2
          THEN IF Has(tl[n - 1], key)
                 THEN WithTop(tl, SetItem(top, key, Rec(tl[n - 1][key].cur, value)))
                 ELSE WithTop(tl, SetItem(top, key, Rec(None, value)))
        ELSE WithTop(tl, SetItem(top, key,
                         Rec(IF Has(tl[n - 1], key) THEN AsValue(tl[n - 1][key])
                                                    ELSE None,
                             value)))

\* get with the frames scanned outermost first (reversed() left out)
RECURSIVE GetScanUp(_, _, _)
GetScanUp(tl, i, key) ==
    IF i > Len(tl) THEN NULL
    ELSE IF Has(tl[i], key)
      THEN IF IsList(tl[i][key])
             THEN IF tl[i][key].cur # None THEN tl[i][key].cur ELSE NULL
             ELSE tl[i][key].cur
      ELSE GetScanUp(tl, i + 1, key)

get_Forward(tl, key) ==
    IF Len(tl) = 1
      THEN IF Has(tl[1], key) THEN AsValue(tl[1][key]) ELSE NULL
      ELSE GetScanUp(tl, 1, key)

\* the loop of DBImitate.get: frames from the i-th down to the base layer
RECURSIVE GetScan(_, _, _)
GetScan(tl, i, key) ==
    IF i = 0 THEN NULL
    ELSE IF Has(tl[i], key)
      THEN IF IsList(tl[i][key])
             THEN IF tl[i][key].cur # None THEN tl[i][key].cur ELSE NULL
             ELSE tl[i][key].cur
      ELSE GetScan(tl, i - 1, key)

\* DBImitate.get
get(tl, key) ==
    IF Len(tl) = 1
      THEN IF Has(tl[1], key) THEN AsValue(tl[1][key]) ELSE NULL
      ELSE GetScan(tl, Len(tl), key)

\* unset recording a delete for every key that get resolves to a value
unset_ChecksView(tl, key) ==
    LET n   == Len(tl)
        top == tl[n]
    IN  IF n = 1
          THEN IF Has(tl[1], key) THEN WithTop(tl, PopItem(top, key)) ELSE tl
        ELSE IF Has(top, key)
          THEN WithTop(tl, PopItem(top, key))
        ELSE IF get(tl, key) # NULL
          THEN WithTop(tl, SetItem(top, key, Rec(get(tl, key), None)))
        ELSE tl

\* unset without the test that the key is in self.db
unset_NoBaseCheck(tl, key) ==
    LET n   == Len(tl)
        top == tl[n]
    IN  IF n = 1
          THEN IF Has(tl[1], key) THEN WithTop(tl, PopItem(top, key)) ELSE tl
        ELSE IF Has(top, key)
          THEN WithTop(tl, PopItem(top, key))
        ELSE WithTop(tl, SetItem(top, key,
                         Rec(IF Has(tl[1], key) THEN AsValue(tl[1][key]) ELSE None,
                             None)))

\* DBImitate.unset
unset(tl, key) ==
    LET n   == Len(tl)
        top == tl[n]
    IN  IF n = 1
          THEN IF Has(tl[1], key) THEN WithTop(tl, PopItem(top, key)) ELSE tl
        ELSE IF Has(top, key)
          THEN WithTop(tl, PopItem(top, key))
        ELSE IF Has(tl[1], key)
          THEN WithTop(tl, SetItem(top, key, Rec(AsValue(tl[1][key]), None)))
        ELSE tl

\* the condition of find's inner loop on one entry: a list whose second
\* element is the value, or a plain value equal to it
Matches(e, value) ==
    \/ IsList(e) /\ e.cur = value
    \/ e.kind = "raw" /\ e.cur = value

\* find without the re-check of the key's current value
find_NoRecheck(tl, value) ==
    { key \in Keys :
        \E i \in DOMAIN tl : Has(tl[i], key) /\ Matches(tl[i][key], value) }

\* DBImitate.find: the keys collected in the set `keys` (the returned list
\* has the order of a Python set, so the result is modelled as that set)
find(tl, value) ==
    { key \in Keys :
        \E i \in DOMAIN tl :
            /\ Has(tl[i], key)
            /\ Matches(tl[i][key], value)
            /\ get(tl, key) = value }

\* DBImitate.counts
counts(tl, value) == Cardinality(find(tl, value))

\* DBImitate.begin_transaction
begin_transaction(tl) == Append(tl, EmptyDict)

\* CommitKey where a pending delete always replaces the parent's entry
CommitKey_PropagatesDelete(parent, key, e, depth) ==
    IF e.cur = None
      THEN IF depth = 2 THEN Absent ELSE e
      ELSE IF depth = 2 THEN Raw(e.cur) ELSE e

\* CommitKey where a record of the parent frame is not overwritten
CommitKey_OuterWins(parent, key, e, depth) ==
    IF e.cur = None
      THEN IF Has(parent, key) THEN Absent ELSE e
      ELSE IF depth = 2 THEN Raw(e.cur)
      ELSE IF Has(parent, key) THEN parent[key] ELSE e

\* CommitKey with the test for the outermost transaction off by one
CommitKey_OffByOne(parent, key, e, depth) ==
    IF e.cur = None
      THEN IF Has(parent, key) THEN Absent ELSE e
      ELSE IF depth = 1 THEN Raw(e.cur) ELSE e

\* the body of commit_transaction's loop for one key of the top frame: the
\* parent frame's new entry for that key; depth is len(self.transaction_log)
CommitKey(parent, key, e, depth) ==
    IF e.cur = None
      THEN IF Has(parent, key) THEN Absent ELSE e
      ELSE IF depth = 2 THEN Raw(e.cur) ELSE e

\* commit_transaction's loop over the keys of the top frame
CommitLoop(top, parent, depth) ==
    [key \in Keys |-> IF Has(top, key)
                        THEN CommitKey(parent, key, top[key], depth)
                        ELSE parent[key]]

\* commit_transaction without the test that a transaction is active
commit_transaction_NoGuard(tl) ==
    IF Len(tl) > 1
      THEN Front(WithParent(tl, CommitLoop(tl[Len(tl)], tl[Len(tl) - 1], Len(tl))))
      ELSE Front(tl)

\* DBImitate.commit_transaction (TransactionError is raised nowhere, so the
\* except branch is never taken)
commit_transaction(tl) ==
    IF Len(tl) > 1
      THEN Front(WithParent(tl, CommitLoop(tl[Len(tl)], tl[Len(tl) - 1], Len(tl))))
      ELSE tl

\* RollbackLoop restoring the record's second slot instead of its first
RECURSIVE RollbackLoop_WrongSlot(_, _, _, _, _)
RollbackLoop_WrongSlot(top, parent, order, i, depth) ==
    IF i > Len(order) THEN [parent |-> parent, exc |-> None]
    ELSE LET key == order[i]
         IN  IF Has(top, key) /\ top[key].prev # None
               THEN IF depth = 2
                      THEN RollbackLoop_WrongSlot(top,
                             SetItem(parent, key, Raw(top[key].cur)),
                             order, i + 1, depth)
                    ELSE IF Has(parent, key)
                      THEN RollbackLoop_WrongSlot(top,
                             SetItem(parent, key,
                                     [parent[key] EXCEPT !.cur = top[key].cur]),
                             order, i + 1, depth)
                    ELSE [parent |-> parent, exc |-> "KeyError"]
               ELSE RollbackLoop_WrongSlot(top, parent, order, i + 1, depth)

\* RollbackLoop without the test that the first slot is not None
RECURSIVE RollbackLoop_NoNoneCheck(_, _, _, _, _)
RollbackLoop_NoNoneCheck(top, parent, order, i, depth) ==
    IF i > Len(order) THEN [parent |-> parent, exc |-> None]
    ELSE LET key == order[i]
         IN  IF Has(top, key)
               THEN IF depth = 2
                      THEN RollbackLoop_NoNoneCheck(top,
                             SetItem(parent, key, Raw(top[key].prev)),
                             order, i + 1, depth)
                    ELSE IF Has(parent, key)
                      THEN RollbackLoop_NoNoneCheck(top,
                             SetItem(parent, key,
                                     [parent[key] EXCEPT !.cur = top[key].prev]),
                             order, i + 1, depth)
                    ELSE [parent |-> parent, exc |-> "KeyError"]
               ELSE RollbackLoop_NoNoneCheck(top, parent, order, i + 1, depth)

\* rollback_transaction's loop over the keys of the top frame, visited in
\* `order`, from the i-th on.  parent[key][1] = ... raises KeyError when the
\* parent frame has no entry for the key: the loop stops there, with the
\* keys visited before it restored.
RECURSIVE RollbackLoop(_, _, _, _, _)
RollbackLoop(top, parent, order, i, depth) ==
    IF i > Len(order) THEN [parent |-> parent, exc |-> None]
    ELSE LET key == order[i]
         IN  IF Has(top, key) /\ top[key].prev # None
               THEN IF depth = 2
                      THEN RollbackLoop(top, SetItem(parent, key, Raw(top[key].prev)),
                                        order, i + 1, depth)
                    ELSE IF Has(parent, key)
                      THEN RollbackLoop(top,
                             SetItem(parent, key,
                                     [parent[key] EXCEPT !.cur = top[key].prev]),
                             order, i + 1, depth)
                    ELSE [parent |-> parent, exc |-> "KeyError"]
               ELSE RollbackLoop(top, parent, order, i + 1, depth)

\* DBImitate.rollback_transaction with the top frame's keys visited in
\* `order`: the resulting log and the exception raised, if any.  Whether it
\* raises does not depend on the order, nor does the log it leaves when it
\* does not raise.
rollback_transaction(tl, order) ==
    IF Len(tl) > 1
      THEN LET r == RollbackLoop(tl[Len(tl)], tl[Len(tl) - 1], order, 1, Len(tl))
           IN  IF r.exc = None
                 THEN [tl |-> Front(WithParent(tl, r.parent)), exc |-> None]
                 ELSE [tl |-> WithParent(tl, r.parent), exc |-> r.exc]
      ELSE [tl |-> tl, exc |-> None]

\* ---------------------------------------------------------- state machine
VARIABLES
    transaction_log,   \* self.transaction_log; transaction_log[1] is self.db
    exc,               \* the exception that ended the program, or None
    snaps              \* history: for every open transaction, what get
                       \* returned for each key just before its begin

vars == <<transaction_log, exc, snaps>>

\* what get returns for every key
View(tl) == [k \in Keys |-> get(tl, k)]

\* DBImitate.__init__
Init ==
    /\ transaction_log = <<EmptyDict>>
    /\ exc = None
    /\ snaps = <<>>

Set(key, value) ==
    /\ exc = None
    /\ transaction_log' = set(transaction_log, key, value)
    /\ UNCHANGED <<exc, snaps>>

\* get that stores its 'NULL' default in self.db (setdefault for get)
Get_StoresDefault(key) ==
    /\ exc = None
    /\ transaction_log' =
           IF Has(transaction_log[1], key) THEN transaction_log
           ELSE [transaction_log EXCEPT ![1] = SetItem(@, key, Raw(NULL))]
    /\ UNCHANGED <<exc, snaps>>

\* get returns get(transaction_log, key) and assigns nothing
Get(key) ==
    /\ exc = None
    /\ UNCHANGED vars

Unset(key) ==
    /\ exc = None
    /\ transaction_log' = unset(transaction_log, key)
    /\ UNCHANGED <<exc, snaps>>

\* find returns find(transaction_log, value) and assigns nothing
Find(value) ==
    /\ exc = None
    /\ UNCHANGED vars

\* counts returns counts(transaction_log, value) and assigns nothing
Counts(value) ==
    /\ exc = None
    /\ UNCHANGED vars

Begin ==
    /\ exc = None
    /\ Len(transaction_log) < MaxDepth
    /\ transaction_log' = begin_transaction(transaction_log)
    /\ snaps' = Append(snaps, View(transaction_log))
    /\ UNCHANGED exc

Commit ==
    /\ exc = None
    /\ transaction_log' = commit_transaction(transaction_log)
    /\ snaps' = IF Len(transaction_log) > 1 THEN Front(snaps) ELSE snaps
    /\ UNCHANGED exc

Rollback(order) ==
    /\ exc = None
    /\ LET r == rollback_transaction(transaction_log, order)
       IN  /\ transaction_log' = r.tl
           /\ exc' = r.exc
           /\ snaps' = IF Len(transaction_log) > 1 /\ r.exc = None
                         THEN Front(snaps) ELSE snaps

Next ==
    \/ \E key \in Keys, value \in Values : Set(key, value)
    \/ \E key \in Keys : Get(key)
    \/ \E key \in Keys : Unset(key)
    \/ \E value \in Values : Find(value)
    \/ \E value \in Values : Counts(value)
    \/ Begin
    \/ Commit
    \/ \E order \in KeyOrders : Rollback(order)

Spec == Init /\ [][Next]_vars

\* ------------------------------------------------------------------ claims
\* the program is running: no uncaught exception has ended it
Running == exc = None

Depth == Len(transaction_log)

\* the base layer of a log
Base(tl) == tl[1]

\* commit_transaction applied until no transaction is active
RECURSIVE CommitAll(_)
CommitAll(tl) == IF Len(tl) > 1 THEN CommitAll(commit_transaction(tl)) ELSE tl

\* C1: with a transaction active, rollback_transaction (when it returns)
\* leaves every key reading what it read just before the begin_transaction
\* that opened the rolled-back frame.
C1_RollbackRestoresView ==
    (Running /\ Depth >= 2) =>
        \A order \in KeyOrders :
            LET r == rollback_transaction(transaction_log, order)
            IN  r.exc = None => View(r.tl) = snaps[Len(snaps)]

\* C2: every read equals the base-layer value after all active transactions
\* are committed innermost first, and is 'NULL' exactly when the key is
\* absent from that base layer.
C2_ReadsAsIfCommitted ==
    Running =>
        \A k \in Keys :
            LET done == CommitAll(transaction_log)
            IN  /\ get(transaction_log, k) = get(done, k)
                /\ (get(transaction_log, k) = NULL) <=> ~Has(Base(done), k)

\* the scenario of C3 run from the log tl
UnsetInInnerRun(tl, b, v) ==
    commit_transaction(commit_transaction(
        unset(begin_transaction(set(begin_transaction(tl), b, v)), b)))

\* C3: with no transaction active and b absent from the base layer,
\* begin; set(b, v); begin; unset(b); commit; commit leaves get(b) = 'NULL'.
C3_UnsetInInnerThenCommit ==
    (Running /\ Depth = 1) =>
        \A b \in Keys, v \in Values :
            ~Has(Base(transaction_log), b) =>
                get(UnsetInInnerRun(transaction_log, b, v), b) = NULL

\* the scenario of C4 run from the log tl, and its state before the commits
InnerWinsSets(tl, k, v0, v1, v2) ==
    set(begin_transaction(set(begin_transaction(set(tl, k, v0)), k, v1)), k, v2)

InnerWinsRun(tl, k, v0, v1, v2) ==
    commit_transaction(commit_transaction(InnerWinsSets(tl, k, v0, v1, v2)))

\* C4: set(k, v0); begin; set(k, v1); begin; set(k, v2); commit; commit ends
\* with get(k) = v2, and with v2 in the base layer when it started with no
\* transaction active.
C4_InnerWins ==
    Running =>
        \A k \in Keys, v0 \in Values, v1 \in Values, v2 \in Values :
            LET s == InnerWinsRun(transaction_log, k, v0, v1, v2)
            IN  /\ get(s, k) = v2
                /\ Depth = 1 => Base(s)[k] = Raw(v2)

\* a state with a transaction open in which k is under a pending delete, and
\* from which the scenario, with the outer and inner values different,
\* builds the records [v0, v1] and [v1, v2] and ends with v2
C4_Witness ==
    /\ Running
    /\ Depth >= 2
    /\ \E k \in Keys, v1 \in Values, v2 \in Values :
        LET mid == InnerWinsSets(transaction_log, k, v2, v1, v2)
        IN  /\ v1 # v2
            /\ Has(Base(transaction_log), k)
            /\ get(transaction_log, k) = NULL
            /\ mid[Len(mid)][k] = Rec(v1, v2)
            /\ mid[Len(mid) - 1][k] = Rec(v2, v1)
            /\ get(InnerWinsRun(transaction_log, k, v2, v1, v2), k) = v2

\* the scenario of C5 run from the log tl
CommitFinalityRun(tl, k, v) ==
    commit_transaction(set(begin_transaction(tl), k, v))

\* C5: begin; set(k, v); commit ends with get(k) = v and the depth it
\* started with.
C5_CommitFinality ==
    Running =>
        \A k \in Keys, v \in Values :
            LET s == CommitFinalityRun(transaction_log, k, v)
            IN  get(s, k) = v /\ Len(s) = Depth

\* a state with two transactions open in which the parent frame holds a
\* record for k and k reads another value than v: the scenario ends with v
\* at the same depth
C5_Witness ==
    /\ Running
    /\ \E k \in Keys, v \in Values :
        /\ get(transaction_log, k) \in Values \ {v}
        /\ Depth >= 3
        /\ Has(transaction_log[Depth - 1], k)
        /\ get(CommitFinalityRun(transaction_log, k, v), k) = v
        /\ Len(CommitFinalityRun(transaction_log, k, v)) = Depth

\* the scenario of C6 run from the log tl, the rollback visiting in `order`
RollbackSetRun(tl, k, v1, v2, order) ==
    rollback_transaction(set(begin_transaction(set(tl, k, v1)), k, v2), order)

\* C6: set(k, v1); begin; set(k, v2); rollback returns and ends with
\* get(k) = v1.
C6_RollbackRestoresSet ==
    Running =>
        \A k \in Keys, v1 \in Values, v2 \in Values, order \in KeyOrders :
            LET r == RollbackSetRun(transaction_log, k, v1, v2, order)
            IN  r.exc = None /\ get(r.tl, k) = v1

\* a state with a transaction open in which k reads another value than v1,
\* and from which the scenario with v2 # v1 ends with v1
C6_Witness ==
    /\ Running
    /\ Depth >= 2
    /\ \E k \in Keys, v1 \in Values, v2 \in Values, order \in KeyOrders :
        LET r == RollbackSetRun(transaction_log, k, v1, v2, order)
        IN  /\ v1 # v2
            /\ get(transaction_log, k) = v2
            /\ r.exc = None
            /\ Len(r.tl) = Depth
            /\ get(r.tl, k) = v1

\* the scenario of C7 run from the log tl, the rollback visiting in `order`
FreshKeyRun(tl, k, v, order) ==
    rollback_transaction(set(begin_transaction(tl), k, v), order)

\* C7: where get(k) = 'NULL', begin; set(k, v); rollback returns and ends
\* with get(k) = 'NULL'.
C7_RollbackFreshKey ==
    Running =>
        \A k \in Keys, v \in Values, order \in KeyOrders :
            get(transaction_log, k) = NULL =>
                LET r == FreshKeyRun(transaction_log, k, v, order)
                IN  r.exc = None /\ get(r.tl, k) = NULL

\* a state in which k reads 'NULL' under a pending delete of the top frame,
\* from which the set makes it read v and the rollback 'NULL' again
C7_Witness ==
    /\ Running
    /\ Depth >= 2
    /\ \E k \in Keys, v \in Values, order \in KeyOrders :
        LET r == FreshKeyRun(transaction_log, k, v, order)
        IN  /\ get(transaction_log, k) = NULL
            /\ transaction_log[Depth][k] = Rec(v, None)
            /\ get(set(begin_transaction(transaction_log), k, v), k) = v
            /\ r.exc = None
            /\ get(r.tl, k) = NULL

\* C8: immediately after unset(k), get(k) = 'NULL'.
C8_UnsetReadsNull ==
    Running =>
        \A k \in Keys : get(unset(transaction_log, k), k) = NULL

\* C9: immediately after set(k, v), get(k) = v and every other key reads
\* what it read before.
C9_SetReadsBack ==
    Running =>
        \A k \in Keys, v \in Values :
            LET s == set(transaction_log, k, v)
            IN  /\ get(s, k) = v
                /\ \A k2 \in Keys \ {k} : get(s, k2) = get(transaction_log, k2)

\* a state with two transactions open in which the top frame holds no
\* record for k, an outer frame holds another value for it and another key
\* has a value: set gives k the value v and leaves the other key alone
C9_Witness ==
    /\ Running
    /\ Depth >= 3
    /\ \E k \in Keys, v \in Values, k2 \in Keys :
        /\ k2 # k
        /\ ~Has(transaction_log[Depth], k)
        /\ get(transaction_log, k) \in Values \ {v}
        /\ get(transaction_log, k2) \in Values
        /\ get(set(transaction_log, k, v), k) = v
        /\ get(set(transaction_log, k, v), k2) = get(transaction_log, k2)

\* C10: find(v) is exactly the set of keys k with get(k) = v, and counts(v)
\* is its size.
C10_FindIsResolved ==
    Running =>
        \A v \in Values :
            /\ find(transaction_log, v) = { k \in Keys : get(transaction_log, k) = v }
            /\ counts(transaction_log, v) =
                   Cardinality({ k \in Keys : get(transaction_log, k) = v })

\* a state in which find(v) returns one key and leaves out another that
\* holds v in the base layer under a pending delete
C10_Witness ==
    /\ Running
    /\ \E v \in Values, k1 \in Keys, k2 \in Keys :
        /\ k1 # k2
        /\ find(transaction_log, v) = {k1}
        /\ Base(transaction_log)[k2] = Raw(v)
        /\ \E i \in 2..Depth : transaction_log[i][k2] = Rec(v, None)
        /\ get(transaction_log, k2) = NULL

\* C11: with a transaction active, rollback_transaction returns without
\* raising and removes the top frame.
C11_RollbackTotal ==
    (Running /\ Depth >= 2) =>
        \A order \in KeyOrders :
            LET r == rollback_transaction(transaction_log, order)
            IN  r.exc = None /\ Len(r.tl) = Depth - 1

\* C12: the log always holds the base layer, and with no transaction active
\* commit_transaction and rollback_transaction change nothing.
C12_NoTransactionNoOp ==
    /\ Depth >= 1
    /\ (Running /\ Depth = 1) =>
           /\ commit_transaction(transaction_log) = transaction_log
           /\ \A order \in KeyOrders :
                  rollback_transaction(transaction_log, order)
                      = [tl |-> transaction_log, exc |-> None]

\* a state with no transaction active and both keys in the base layer,
\* which commit and rollback leave as it is
C12_Witness ==
    /\ Running
    /\ Depth = 1
    /\ \A k \in Keys : Has(Base(transaction_log), k)
    /\ commit_transaction(transaction_log) = transaction_log
    /\ \E order \in KeyOrders :
           rollback_transaction(transaction_log, order).tl = transaction_log

\* C13: the base layer holds plain values only and every entry of a
\* transaction frame is a [previous, current] list.
C13_FrameShapes ==
    \A i \in DOMAIN transaction_log, k \in Keys :
        Has(transaction_log[i], k) =>
            IF i = 1 THEN transaction_log[i][k].kind = "raw"
                     ELSE IsList(transaction_log[i][k])

\* a state whose only transaction holds a pending delete of a base-layer
\* key, and whose commit removes the key from the base layer
C13_Witness ==
    /\ Running
    /\ Depth = 2
    /\ \E k \in Keys, v \in Values :
        /\ Base(transaction_log)[k] = Raw(v)
        /\ transaction_log[2][k] = Rec(v, None)
        /\ ~Has(Base(commit_transaction(transaction_log)), k)
        /\ \A k2 \in Keys :
               Base(commit_transaction(transaction_log))[k2].kind # "list"

\* C14: get, find and counts leave the base layer, every transaction frame
\* and the depth as they were (so a repeated read returns the same result).
C14_ReadsChangeNothing ==
    [][ ( \/ \E key \in Keys : Get(key)
          \/ \E value \in Values : Find(value)
          \/ \E value \in Values : Counts(value) )
        => /\ transaction_log' = transaction_log
           /\ exc' = exc ]_vars

\* a state with two transactions open in which the reads have something to
\* resolve: a key shadowed by a pending delete and a key found by value
C14_Witness ==
    /\ Running
    /\ Depth >= 3
    /\ \E k \in Keys, k2 \in Keys, v \in Values :
        /\ k # k2
        /\ Has(Base(transaction_log), k)
        /\ get(transaction_log, k) = NULL
        /\ find(transaction_log, v) = {k2}
        /\ counts(transaction_log, v) = 1
        /\ ENABLED Get(k)
        /\ ENABLED Find(v)
        /\ ENABLED Counts(v)

\* ROLLBACK of the outermost transaction only
RollbackOutermost(order) ==
    /\ Len(transaction_log) <= 2
    /\ Rollback(order)

\* the commands of C15: no transaction nested in another is rolled back
NextNested ==
    \/ \E key \in Keys, value \in Values : Set(key, value)
    \/ \E key \in Keys : Get(key)
    \/ \E key \in Keys : Unset(key)
    \/ \E value \in Values : Find(value)
    \/ \E value \in Values : Counts(value)
    \/ Begin
    \/ Commit
    \/ \E order \in KeyOrders : RollbackOutermost(order)

SpecNested == Init /\ [][NextNested]_vars

\* C15: the rollback of the outermost transaction leaves the base layer as
\* it was just before that transaction's begin, whatever set, unset and
\* committed nested transactions it contained.  (With no transaction active
\* View gives, for each key, its base-layer value or 'NULL'.)
C15_OuterRollbackRestoresBase ==
    (Running /\ Depth = 2) =>
        \A order \in KeyOrders :
            LET r == rollback_transaction(transaction_log, order)
            IN  /\ r.exc = None
                /\ Len(r.tl) = 1
                /\ View(r.tl) = snaps[1]

\* C16: for every transaction frame above the outermost one, every key it
\* records with a previous slot that is not None also has a record in the
\* frame directly below (the entry rollback_transaction writes to).
C16_ParentHoldsRecord ==
    \A i \in 3..Depth, k \in Keys :
        (Has(transaction_log[i], k) /\ transaction_log[i][k].prev # None)
            => Has(transaction_log[i - 1], k)

\* C17: set(k, v) changes only k's entry of the topmost frame.  With two or
\* more transactions active the entry is [previous, v] with previous the
\* parent record's current slot, or None when the parent frame has no record
\* for k; with one transaction active previous is the base-layer value or
\* None; with none the base layer gets the plain value v.
C17_SetRecordsShallowPrevious ==
    Running =>
        \A k \in Keys, v \in Values :
            LET s == set(transaction_log, k, v)
                parent == transaction_log[Depth - 1]
            IN  /\ Len(s) = Depth
                /\ \A i \in 1..(Depth - 1) : s[i] = transaction_log[i]
                /\ \A k2 \in Keys \ {k} : s[Depth][k2] = transaction_log[Depth][k2]
                /\ Depth >= 3 =>
                       s[Depth][k] = IF Has(parent, k) THEN Rec(parent[k].cur, v)
                                                       ELSE Rec(None, v)
                /\ Depth = 2 =>
                       s[Depth][k] = IF Has(parent, k) THEN Rec(parent[k].cur, v)
                                                       ELSE Rec(None, v)
                /\ Depth = 1 => s[Depth][k] = Raw(v)

\* a state with two transactions open in which the parent frame has no
\* record for k while the base layer holds a value for it, which k reads:
\* set records previous = None
C17_Witness ==
    /\ Running
    /\ Depth = 3
    /\ \E k \in Keys, v \in Values :
        /\ Has(Base(transaction_log), k)
        /\ ~Has(transaction_log[2], k)
        /\ get(transaction_log, k) \in Values
        /\ set(transaction_log, k, v)[3][k] = Rec(None, v)

\* C18: inside a transaction whose top frame has no record for k, unset(k)
\* writes [base value, None] into the top frame when k is in the base layer
\* and changes nothing otherwise, so a key held only by outer transaction
\* frames keeps its value.
C18_UnsetConsultsBaseOnly ==
    (Running /\ Depth >= 2) =>
        \A k \in Keys :
            ~Has(transaction_log[Depth], k) =>
                LET s == unset(transaction_log, k)
                IN  IF Has(Base(transaction_log), k)
                      THEN s = WithTop(transaction_log,
                                       SetItem(transaction_log[Depth], k,
                                               Rec(Base(transaction_log)[k].cur, None)))
                      ELSE /\ s = transaction_log
                           /\ get(s, k) = get(transaction_log, k)

\* a state with two transactions open in which k is held by the outer
\* transaction only: unset changes nothing and k still reads its value
C18_Witness ==
    /\ Running
    /\ Depth = 3
    /\ \E k \in Keys :
        /\ ~Has(transaction_log[3], k)
        /\ ~Has(Base(transaction_log), k)
        /\ Has(transaction_log[2], k)
        /\ get(transaction_log, k) \in Values
        /\ unset(transaction_log, k) = transaction_log
        /\ get(unset(transaction_log, k), k) = get(transaction_log, k)

\* C19: commit_transaction pops the top frame after merging it into its
\* parent, and changes no other frame.  A pending delete removes the
\* parent's entry for the key when there is one, and is copied into a parent
\* transaction frame that has none; a record that sets a value replaces the
\* parent's entry, as the plain value in the base layer and as the whole
\* record in a transaction frame; keys without a record are left alone.
C19_CommitMerge ==
    (Running /\ Depth >= 2) =>
        LET s      == commit_transaction(transaction_log)
            top    == transaction_log[Depth]
            parent == transaction_log[Depth - 1]
        IN  /\ Len(s) = Depth - 1
            /\ \A i \in 1..(Depth - 2) : s[i] = transaction_log[i]
            /\ \A k \in Keys :
                 /\ ~Has(top, k) => s[Depth - 1][k] = parent[k]
                 /\ (Has(top, k) /\ top[k].cur = None /\ Has(parent, k))
                        => ~Has(s[Depth - 1], k)
                 /\ (Has(top, k) /\ top[k].cur = None /\ ~Has(parent, k) /\ Depth >= 3)
                        => s[Depth - 1][k] = top[k]
                 /\ (Has(top, k) /\ top[k].cur # None /\ Depth = 2)
                        => s[Depth - 1][k] = Raw(top[k].cur)
                 /\ (Has(top, k) /\ top[k].cur # None /\ Depth >= 3)
                        => s[Depth - 1][k] = top[k]

\* a state with two transactions open whose top frame holds a pending
\* delete of a key the parent frame records and a value for a key it does
\* not: the commit drops the first record and copies the second
C19_Witness ==
    /\ Running
    /\ Depth = 3
    /\ \E k \in Keys, k2 \in Keys, v \in Values :
        /\ k # k2
        /\ IsList(transaction_log[3][k]) /\ transaction_log[3][k].cur = None
        /\ Has(transaction_log[2], k)
        /\ IsList(transaction_log[3][k2]) /\ transaction_log[3][k2].cur = v
        /\ ~Has(transaction_log[2], k2)
        /\ ~Has(commit_transaction(transaction_log)[2], k)
        /\ commit_transaction(transaction_log)[2][k2] = transaction_log[3][k2]

\* the set and unset calls, and the sequences of at most MaxOps of them
Calls ==
    [op : {"set"}, key : Keys, val : Values] \cup
    [op : {"unset"}, key : Keys, val : {None}]

CallSeqs == UNION { [1..n -> Calls] : n \in 0..MaxOps }

\* the calls of S, from the i-th on, made on the log tl
RECURSIVE ApplyCalls(_, _, _)
ApplyCalls(tl, S, i) ==
    IF i > Len(S) THEN tl
    ELSE ApplyCalls(IF S[i].op = "set" THEN set(tl, S[i].key, S[i].val)
                                        ELSE unset(tl, S[i].key),
                    S, i + 1)

\* C20: with no transaction active, begin; S; commit leaves the base layer
\* that S leaves when run without a transaction, for every sequence S of
\* set and unset calls.
C20_CommittedTransactionIsDirect ==
    (Running /\ Depth = 1) =>
        \A S \in CallSeqs :
            Base(commit_transaction(
                     ApplyCalls(begin_transaction(transaction_log), S, 1)))
                = Base(ApplyCalls(transaction_log, S, 1))

====
